---- MODULE Spec2Model ----
(***************************************************************************)
(* Matrix multiplication by the naive triple loop and by Strassen's        *)
(* recursion (matrixmult.py; ex2.py holds the same two functions).         *)
(*                                                                         *)
(* A numpy array is modelled by its shape and its entries:                 *)
(*   [nr |-> rows, nc |-> columns, e |-> [(0..nr-1) \X (0..nc-1) -> Int]]  *)
(* Entries are integers: float64 arithmetic on integer values of this size *)
(* is exact.  A raised exception is the record [err |-> <its Python name>].*)
(***************************************************************************)
EXTENDS Integers, Sequences, FiniteSets, TLC

\* Largest matrix dimension the inputs are drawn from.
MaxN == 8
\* Largest dimension for which every unit matrix E_ab is among the inputs.
MaxBasisN == 4

\* The driver's view: its operands and what each method returned for them.
VARIABLES inA, inB, naive_out, strassen_out
\* The interpreter's view of one call: the arrays that exist (heap), the
\* frames of the calls in progress with each frame's line and locals (stack),
\* what the top-level call was given (call) and what it returned or raised
\* (ret), the previous top-level call and its result (prev), and the number
\* of loop-body executions of the naive_method call in progress (inner).
VARIABLES heap, stack, call, ret, prev, inner

driverVars == <<inA, inB, naive_out, strassen_out>>

stepVars == <<heap, stack, call, ret, prev, inner>>

vars == <<inA, inB, naive_out, strassen_out, heap, stack, call, ret, prev, inner>>

None == [none |-> TRUE]

-----------------------------------------------------------------------------
(* numpy arrays *)

Raise(kind) == [err |-> kind]

IsErr(v) == "err" \in DOMAIN v

Idx(nr, nc) == (0 .. nr - 1) \X (0 .. nc - 1)

\* np.zeros((n, n))
Zeros(n) == [nr |-> n, nc |-> n, e |-> [p \in Idx(n, n) |-> 0]]

\* A slice [r0:r1, c0:c1] of an nr x nc array, numpy clipping the bounds to
\* the shape: where the window starts and its shape.
Clip(x, len) == IF x > len THEN len ELSE x

Window(nr, nc, r0, r1, c0, c1) ==
    LET a0 == Clip(r0, nr)
        a1 == Clip(r1, nr)
        b0 == Clip(c0, nc)
        b1 == Clip(c1, nc)
    IN  [r0 |-> a0, c0 |-> b0,
         nr |-> IF a1 > a0 THEN a1 - a0 ELSE 0,
         nc |-> IF b1 > b0 THEN b1 - b0 ELSE 0]

\* The bounds of the half [:mid] ("lo") and of the half [mid:] ("hi") of an
\* axis of length len.
HalfFrom(half, mid) == IF half = "lo" THEN 0 ELSE mid

HalfTo(half, mid, len) == IF half = "lo" THEN mid ELSE len

\* M[r0:r1, c0:c1] as a value.
Slice(M, r0, r1, c0, c1) ==
    LET w == Window(M.nr, M.nc, r0, r1, c0, c1)
    IN  [nr |-> w.nr, nc |-> w.nc,
         e  |-> [p \in Idx(w.nr, w.nc) |-> M.e[<<w.r0 + p[1], w.c0 + p[2]>>]]]

\* A[:mid, :mid], A[:mid, mid:], A[mid:, :mid], A[mid:, mid:].
Quadrant(M, rows, cols, mid) ==
    Slice(M, HalfFrom(rows, mid), HalfTo(rows, mid, M.nr),
             HalfFrom(cols, mid), HalfTo(cols, mid, M.nc))

\* numpy broadcasting of two extents: equal, or one of them 1; -1 when the
\* operands cannot be broadcast together.
BroadcastDim(a, b) ==
    IF a = b THEN a ELSE IF a = 1 THEN b ELSE IF b = 1 THEN a ELSE -1

BroadcastAt(X, i, j) ==
    X.e[<<IF X.nr = 1 THEN 0 ELSE i, IF X.nc = 1 THEN 0 ELSE j>>]

\* X + Y and X - Y on arrays: elementwise on the broadcast shape, a new array.
Elementwise(op, X, Y) ==
    LET nr == BroadcastDim(X.nr, Y.nr)
        nc == BroadcastDim(X.nc, Y.nc)
    IN  IF nr < 0 \/ nc < 0 THEN Raise("ValueError")
        ELSE [nr |-> nr, nc |-> nc,
              e  |-> [p \in Idx(nr, nc) |->
                         IF op = "+"
                         THEN BroadcastAt(X, p[1], p[2]) + BroadcastAt(Y, p[1], p[2])
                         ELSE BroadcastAt(X, p[1], p[2]) - BroadcastAt(Y, p[1], p[2])]]

\* T[r0:r1, c0:c1] = V: V is broadcast to the shape of the slice of T.
SetSlice(T, r0, r1, c0, c1, V) ==
    LET w == Window(T.nr, T.nc, r0, r1, c0, c1)
        fits == (V.nr = w.nr \/ V.nr = 1) /\ (V.nc = w.nc \/ V.nc = 1)
    IN  IF ~fits THEN Raise("ValueError")
        ELSE [T EXCEPT !.e =
                 [p \in Idx(T.nr, T.nc) |->
                     IF /\ p[1] >= w.r0 /\ p[1] < w.r0 + w.nr
                        /\ p[2] >= w.c0 /\ p[2] < w.c0 + w.nc
                     THEN BroadcastAt(V, p[1] - w.r0, p[2] - w.c0)
                     ELSE T.e[p]]]

-----------------------------------------------------------------------------
(* naive_method *)

\* The loop body counting a multiply-add as one operation.
LoopBodyOneFlop(A, B, st, i, j, k) ==
    IF k >= A.nc \/ k >= B.nr \/ j >= B.nc
    THEN Raise("IndexError")
    ELSE [C     |-> [st.C EXCEPT !.e[<<i, j>>] = @ + A.e[<<i, k>>] * B.e[<<k, j>>]],
          flops |-> st.flops + 1]

\* The loop body with C[i, j] = A[i, k] * B[k, j].
LoopBodyOverwrites(A, B, st, i, j, k) ==
    IF k >= A.nc \/ k >= B.nr \/ j >= B.nc
    THEN Raise("IndexError")
    ELSE [C     |-> [st.C EXCEPT !.e[<<i, j>>] = A.e[<<i, k>>] * B.e[<<k, j>>]],
          flops |-> st.flops + 2]

\* The loop body: C[i, j] += A[i, k] * B[k, j]; flops += 2.
\* st is the pair of locals [C, flops]; an index past an operand's shape
\* raises IndexError.
LoopBody(A, B, st, i, j, k) ==
    IF k >= A.nc \/ k >= B.nr \/ j >= B.nc
    THEN Raise("IndexError")
    ELSE [C     |-> [st.C EXCEPT !.e[<<i, j>>] = @ + A.e[<<i, k>>] * B.e[<<k, j>>]],
          flops |-> st.flops + 2]

RECURSIVE ForK(_, _, _, _, _, _, _)
ForK(A, B, n, st, i, j, k) ==
    IF k >= n THEN st
    ELSE LET s2 == LoopBody(A, B, st, i, j, k)
         IN  IF IsErr(s2) THEN s2 ELSE ForK(A, B, n, s2, i, j, k + 1)

RECURSIVE ForJ(_, _, _, _, _, _)
ForJ(A, B, n, st, i, j) ==
    IF j >= n THEN st
    ELSE LET s2 == ForK(A, B, n, st, i, j, 0)
         IN  IF IsErr(s2) THEN s2 ELSE ForJ(A, B, n, s2, i, j + 1)

RECURSIVE ForI(_, _, _, _, _)
ForI(A, B, n, st, i) ==
    IF i >= n THEN st
    ELSE LET s2 == ForJ(A, B, n, st, i, 0)
         IN  IF IsErr(s2) THEN s2 ELSE ForI(A, B, n, s2, i + 1)

naive_method(A, B) ==
    LET n == A.nr
    IN  ForI(A, B, n, [C |-> Zeros(n), flops |-> 0], 0)

-----------------------------------------------------------------------------
(* strassen_method *)

\* Lines 65-72: the eight quadrant slices.
QuadCode ==
    << [line |-> 65, dst |-> "A11", src |-> "A", rows |-> "lo", cols |-> "lo"],
       [line |-> 66, dst |-> "A12", src |-> "A", rows |-> "lo", cols |-> "hi"],
       [line |-> 67, dst |-> "A21", src |-> "A", rows |-> "hi", cols |-> "lo"],
       [line |-> 68, dst |-> "A22", src |-> "A", rows |-> "hi", cols |-> "hi"],
       [line |-> 69, dst |-> "B11", src |-> "B", rows |-> "lo", cols |-> "lo"],
       [line |-> 70, dst |-> "B12", src |-> "B", rows |-> "lo", cols |-> "hi"],
       [line |-> 71, dst |-> "B21", src |-> "B", rows |-> "hi", cols |-> "lo"],
       [line |-> 72, dst |-> "B22", src |-> "B", rows |-> "hi", cols |-> "hi"] >>

\* Lines 75-84: the ten combinations.
ComboCode ==
    << [line |-> 75, dst |-> "S1",  x |-> "B12", op |-> "-", y |-> "B22"],
       [line |-> 76, dst |-> "S2",  x |-> "A11", op |-> "+", y |-> "A12"],
       [line |-> 77, dst |-> "S3",  x |-> "A21", op |-> "+", y |-> "A22"],
       [line |-> 78, dst |-> "S4",  x |-> "B21", op |-> "-", y |-> "B11"],
       [line |-> 79, dst |-> "S5",  x |-> "A11", op |-> "+", y |-> "A22"],
       [line |-> 80, dst |-> "S6",  x |-> "B11", op |-> "+", y |-> "B22"],
       [line |-> 81, dst |-> "S7",  x |-> "A12", op |-> "-", y |-> "A22"],
       [line |-> 82, dst |-> "S8",  x |-> "B21", op |-> "+", y |-> "B22"],
       [line |-> 83, dst |-> "S9",  x |-> "A11", op |-> "-", y |-> "A21"],
       [line |-> 84, dst |-> "S10", x |-> "B11", op |-> "+", y |-> "B12"] >>

\* Lines 86-92 with P1 = strassen_method(A, S1).
ProductCodeWholeOperand ==
    << [line |-> 86, dst |-> "P1", cnt |-> "flops1", a |-> "A",   b |-> "S1"],
       [line |-> 87, dst |-> "P2", cnt |-> "flops2", a |-> "S2",  b |-> "B22"],
       [line |-> 88, dst |-> "P3", cnt |-> "flops3", a |-> "S3",  b |-> "B11"],
       [line |-> 89, dst |-> "P4", cnt |-> "flops4", a |-> "A22", b |-> "S4"],
       [line |-> 90, dst |-> "P5", cnt |-> "flops5", a |-> "S5",  b |-> "S6"],
       [line |-> 91, dst |-> "P6", cnt |-> "flops6", a |-> "S7",  b |-> "S8"],
       [line |-> 92, dst |-> "P7", cnt |-> "flops7", a |-> "S9",  b |-> "S10"] >>

\* Lines 86-92: the seven recursive multiplications.
ProductCode ==
    << [line |-> 86, dst |-> "P1", cnt |-> "flops1", a |-> "A11", b |-> "S1"],
       [line |-> 87, dst |-> "P2", cnt |-> "flops2", a |-> "S2",  b |-> "B22"],
       [line |-> 88, dst |-> "P3", cnt |-> "flops3", a |-> "S3",  b |-> "B11"],
       [line |-> 89, dst |-> "P4", cnt |-> "flops4", a |-> "A22", b |-> "S4"],
       [line |-> 90, dst |-> "P5", cnt |-> "flops5", a |-> "S5",  b |-> "S6"],
       [line |-> 91, dst |-> "P6", cnt |-> "flops6", a |-> "S7",  b |-> "S8"],
       [line |-> 92, dst |-> "P7", cnt |-> "flops7", a |-> "S9",  b |-> "S10"] >>

\* Lines 96-99 with C22 = P5 + P1 - P3 + P7.
RecombineCodeSignSlip ==
    << [line |-> 96, dst |-> "C11", first |-> "P5",
        rest |-> << [op |-> "+", y |-> "P4"], [op |-> "-", y |-> "P2"],
                    [op |-> "+", y |-> "P6"] >>],
       [line |-> 97, dst |-> "C12", first |-> "P1", rest |-> << [op |-> "+", y |-> "P2"] >>],
       [line |-> 98, dst |-> "C21", first |-> "P3", rest |-> << [op |-> "+", y |-> "P4"] >>],
       [line |-> 99, dst |-> "C22", first |-> "P5",
        rest |-> << [op |-> "+", y |-> "P1"], [op |-> "-", y |-> "P3"],
                    [op |-> "+", y |-> "P7"] >>] >>

\* Lines 96-99: the four result quadrants, each a left-to-right chain.
RecombineCode ==
    << [line |-> 96, dst |-> "C11", first |-> "P5",
        rest |-> << [op |-> "+", y |-> "P4"], [op |-> "-", y |-> "P2"],
                    [op |-> "+", y |-> "P6"] >>],
       [line |-> 97, dst |-> "C12", first |-> "P1", rest |-> << [op |-> "+", y |-> "P2"] >>],
       [line |-> 98, dst |-> "C21", first |-> "P3", rest |-> << [op |-> "+", y |-> "P4"] >>],
       [line |-> 99, dst |-> "C22", first |-> "P5",
        rest |-> << [op |-> "+", y |-> "P1"], [op |-> "-", y |-> "P3"],
                    [op |-> "-", y |-> "P7"] >>] >>

\* Lines 102-105: the four slice assignments into C.
AssembleCode ==
    << [line |-> 102, rows |-> "lo", cols |-> "lo", src |-> "C11"],
       [line |-> 103, rows |-> "lo", cols |-> "hi", src |-> "C12"],
       [line |-> 104, rows |-> "hi", cols |-> "lo", src |-> "C21"],
       [line |-> 105, rows |-> "hi", cols |-> "hi", src |-> "C22"] >>

\* Line 61 with the test n < 2.
IsBaseCaseBelowTwo(n) == n < 2

\* Line 61: the base-case test.
IsBaseCase(n) == n <= 2

\* Line 64: mid = n // 2.
Mid(n) == n \div 2

\* Line 94 counting the eight additions of lines 96-99 too.
LevelFlopsWithRecombination(env, n) ==
    env["flops1"] + env["flops2"] + env["flops3"] + env["flops4"]
      + env["flops5"] + env["flops6"] + env["flops7"] + 18 * (n \div 2) * (n \div 2)

\* Line 94: the count of this level, from the seven children's counts.
LevelFlops(env, n) ==
    env["flops1"] + env["flops2"] + env["flops3"] + env["flops4"]
      + env["flops5"] + env["flops6"] + env["flops7"] + 10 * (n \div 2) * (n \div 2)

\* The value of a chain  first op y op y ...  evaluated left to right.
RECURSIVE Chain(_, _, _, _)
Chain(env, acc, rest, t) ==
    IF t > Len(rest) THEN acc
    ELSE LET r == Elementwise(rest[t].op, acc, env[rest[t].y])
         IN  IF IsErr(r) THEN r ELSE Chain(env, r, rest, t + 1)

\* C[rows, cols] = V for a quadrant of C.
AssignQuadrant(C, rows, cols, mid, V) ==
    SetSlice(C, HalfFrom(rows, mid), HalfTo(rows, mid, C.nr),
                HalfFrom(cols, mid), HalfTo(cols, mid, C.nc), V)

Quadrants(A, B, mid) ==
    [name \in {QuadCode[t].dst : t \in 1 .. Len(QuadCode)} |->
        LET q == CHOOSE c \in {QuadCode[t] : t \in 1 .. Len(QuadCode)} : c.dst = name
        IN  Quadrant(IF q.src = "A" THEN A ELSE B, q.rows, q.cols, mid)]

RECURSIVE Combine(_, _)
Combine(env, t) ==
    IF t > Len(ComboCode) THEN env
    ELSE LET c == ComboCode[t]
             r == Elementwise(c.op, env[c.x], env[c.y])
         IN  IF IsErr(r) THEN r ELSE Combine(env @@ (c.dst :> r), t + 1)

RECURSIVE Recombine(_, _)
Recombine(env, t) ==
    IF t > Len(RecombineCode) THEN env
    ELSE LET c == RecombineCode[t]
             r == Chain(env, env[c.first], c.rest, 1)
         IN  IF IsErr(r) THEN r ELSE Recombine(env @@ (c.dst :> r), t + 1)

RECURSIVE Assemble(_, _, _, _)
Assemble(env, C, mid, t) ==
    IF t > Len(AssembleCode) THEN C
    ELSE LET c == AssembleCode[t]
             r == AssignQuadrant(C, c.rows, c.cols, mid, env[c.src])
         IN  IF IsErr(r) THEN r ELSE Assemble(env, r, mid, t + 1)

RECURSIVE strassen_method(_, _)
RECURSIVE Multiply(_, _)
Multiply(env, t) ==
    IF t > Len(ProductCode) THEN env
    ELSE LET c == ProductCode[t]
             r == strassen_method(env[c.a], env[c.b])
         IN  IF IsErr(r) THEN r
             ELSE Multiply(env @@ (c.dst :> r.C) @@ (c.cnt :> r.flops), t + 1)

strassen_method(A, B) ==
    LET n == A.nr
    IN  IF IsBaseCase(n) THEN naive_method(A, B)
        ELSE LET mid  == Mid(n)
                 env1 == Combine(Quadrants(A, B, mid), 1)
                 env2 == IF IsErr(env1) THEN env1 ELSE Multiply(env1, 1)
                 env3 == IF IsErr(env2) THEN env2 ELSE Recombine(env2, 1)
                 C    == IF IsErr(env3) THEN env3 ELSE Assemble(env3, Zeros(n), mid, 1)
             IN  IF IsErr(C) THEN C
                 ELSE [C |-> C, flops |-> LevelFlops(env2, n)]

-----------------------------------------------------------------------------
(* The driver's inputs.  matrixmult.py draws them at random from [-2, 2];   *)
(* here they are drawn from fixed families.                                 *)

Square(n, e) == [nr |-> n, nc |-> n, e |-> e]

ZeroMatrix(n) == Square(n, [p \in Idx(n, n) |-> 0])

IdentityMatrix(n) ==
    Square(n, [p \in Idx(n, n) |-> IF p[1] = p[2] THEN 1 ELSE 0])

\* 1 .. n*n in row-major order.
RowMajor(n) == Square(n, [p \in Idx(n, n) |-> p[1] * n + p[2] + 1])

\* A dense matrix with entries in -2 .. 2.
Signed(n) == Square(n, [p \in Idx(n, n) |-> ((3 * p[1] + 5 * p[2] + p[1] * p[2]) % 5) - 2])

\* The unit matrix E_ab.
Unit(n, a, b) == Square(n, [p \in Idx(n, n) |-> IF p = <<a, b>> THEN 1 ELSE 0])

Family(n) ==
    {ZeroMatrix(n), IdentityMatrix(n), RowMajor(n), Signed(n)}
      \cup (IF n <= MaxBasisN THEN {Unit(n, p[1], p[2]) : p \in Idx(n, n)} ELSE {})

Dims == 0 .. MaxN

\* Operand pairs: every pair of one family for equal dimensions, one dense
\* pair for each pair of unequal dimensions.
InputPairs ==
    UNION {Family(n) \X Family(n) : n \in Dims}
      \cup {<<RowMajor(m), Signed(n)>> : m \in Dims, n \in Dims}

-----------------------------------------------------------------------------
(* The two functions statement by statement.                                *)
(*                                                                          *)
(* An array variable holds a reference: the array whose storage it reads    *)
(* and writes (base, an index of heap) and the window of it that it shows.  *)
(* np.zeros and the elementwise operators make a new array; a slice makes   *)
(* a view of the array it slices.  A frame is                               *)
(*   [fn |-> the function, pc |-> the line to execute next,                 *)
(*    env |-> its local variables, await |-> a call of it is in progress,   *)
(*    given |-> the values of its two operands when it was called and the   *)
(*              number of arrays there were then]                           *)

Ref(id, r0, c0, nr, nc) == [base |-> id, r0 |-> r0, c0 |-> c0, nr |-> nr, nc |-> nc]

\* A reference to the whole of array id, which holds M.
WholeRef(id, M) == Ref(id, 0, 0, M.nr, M.nc)

\* The value a reference shows.
Deref(h, r) ==
    [nr |-> r.nr, nc |-> r.nc,
     e  |-> [p \in Idx(r.nr, r.nc) |-> h[r.base].e[<<r.r0 + p[1], r.c0 + p[2]>>]]]

\* The heap after writing V, of the reference's shape, through the reference.
Store(h, r, V) ==
    [h EXCEPT ![r.base].e =
        [p \in DOMAIN @ |->
            IF /\ p[1] >= r.r0 /\ p[1] < r.r0 + r.nr
               /\ p[2] >= r.c0 /\ p[2] < r.c0 + r.nc
            THEN V.e[<<p[1] - r.r0, p[2] - r.c0>>]
            ELSE @[p]]]

\* The view X[rows, cols] of a quadrant of the array X refers to.
QuadrantRef(r, rows, cols, mid) ==
    LET w == Window(r.nr, r.nc, HalfFrom(rows, mid), HalfTo(rows, mid, r.nr),
                                HalfFrom(cols, mid), HalfTo(cols, mid, r.nc))
    IN  Ref(r.base, r.r0 + w.r0, r.c0 + w.c0, w.nr, w.nc)

\* name = v in a frame's locals.
Bind(env, name, v) == (name :> v) @@ env

\* The statements of each function, by line, in the order they follow one
\* another when no branch is taken.
NaiveLines == <<32, 33, 36, 38, 41, 44>>

StrassenLines ==
    <<59, 61, 64>> \o [t \in 1 .. 8 |-> QuadCode[t].line] \o <<74>>
      \o [t \in 1 .. 10 |-> ComboCode[t].line]
      \o [t \in 1 .. 7 |-> ProductCode[t].line] \o <<94>>
      \o [t \in 1 .. 4 |-> RecombineCode[t].line] \o <<101>>
      \o [t \in 1 .. 4 |-> AssembleCode[t].line] \o <<106>>

\* The statement after the one at line pc.
After(lines, pc) ==
    lines[1 + CHOOSE t \in 1 .. Len(lines) - 1 : lines[t] = pc]

\* The entry of a table of statements that stands at line pc.
AtLine(code, pc) == code[CHOOSE t \in 1 .. Len(code) : code[t].line = pc]

HasLine(code, pc) == \E t \in 1 .. Len(code) : code[t].line = pc

\* A call fn(a, b): the callee's frame, at the function's first statement.
Frame(h, fn, a, b) ==
    [fn    |-> fn,
     pc    |-> IF fn = "naive_method" THEN NaiveLines[1] ELSE StrassenLines[1],
     env   |-> ("A" :> a) @@ ("B" :> b),
     await |-> FALSE,
     given |-> [A |-> Deref(h, a), B |-> Deref(h, b), arrays |-> Len(h)]]

Running == stack # <<>>

Top == stack[Len(stack)]

At(fn, pc) == Running /\ Top.fn = fn /\ Top.pc = pc /\ ~Top.await

\* The top frame goes on to the next statement with locals env.
Goto(pc, env) ==
    stack' = [stack EXCEPT ![Len(stack)] = [@ EXCEPT !.pc = pc, !.env = env]]

\* An exception nothing catches: every frame is left, the top-level call raises.
Unwind(kind) ==
    /\ stack' = <<>>
    /\ ret' = Raise(kind)

\* What the caller does with the pair v = (C, flops) its callee returned:
\* line 62 returns it in turn, lines 86-92 bind it to P_t, flops_t.
Deliver(caller, v) ==
    IF caller.pc = 62
    THEN [caller EXCEPT !.env = Bind(@, "retval", v), !.await = FALSE]
    ELSE LET c == AtLine(ProductCode, caller.pc)
         IN  [caller EXCEPT !.env = Bind(Bind(@, c.dst, v.C), c.cnt, v.flops),
                            !.pc = After(StrassenLines, caller.pc),
                            !.await = FALSE]

\* return v: the frame is left; the caller, or the driver, receives v.
Return(v) ==
    IF Len(stack) = 1
    THEN /\ stack' = <<>>
         /\ ret' = v
    ELSE /\ stack' = SubSeq(stack, 1, Len(stack) - 2)
                       \o <<Deliver(stack[Len(stack) - 1], v)>>
         /\ UNCHANGED ret

\* The top frame calls fn(a, b) and waits for it.
Call(fn, a, b) ==
    stack' = [stack EXCEPT ![Len(stack)].await = TRUE] \o <<Frame(heap, fn, a, b)>>

(* naive_method, lines 32-44 *)

\* Line 32: n = A.shape[0].
NaiveShape ==
    /\ At("naive_method", 32)
    /\ Goto(33, Bind(Top.env, "n", Top.env["A"].nr))
    /\ UNCHANGED <<heap, call, ret, prev, inner>>
    /\ UNCHANGED driverVars

\* Line 33 with C = A: no new array.
NaiveAllocAliasesA ==
    /\ At("naive_method", 33)
    /\ Goto(36, Bind(Top.env, "C", Top.env["A"]))
    /\ UNCHANGED <<heap, call, ret, prev, inner>>
    /\ UNCHANGED driverVars

\* Line 33: C = np.zeros((n, n)), a new array.
NaiveAlloc ==
    /\ At("naive_method", 33)
    /\ heap' = Append(heap, Zeros(Top.env["n"]))
    /\ Goto(36, Bind(Top.env, "C", WholeRef(Len(heap) + 1, Zeros(Top.env["n"]))))
    /\ UNCHANGED <<call, ret, prev, inner>>
    /\ UNCHANGED driverVars

\* Line 36 with a count that goes on from the previous call's.
NaiveInitFlopsCarriesOver ==
    /\ At("naive_method", 36)
    /\ Goto(38, Bind(Top.env, "flops", IF prev = None THEN 0 ELSE prev.flops))
    /\ UNCHANGED <<heap, call, ret, prev, inner>>
    /\ UNCHANGED driverVars

\* Line 36: flops = 0.
NaiveInitFlops ==
    /\ At("naive_method", 36)
    /\ Goto(38, Bind(Top.env, "flops", 0))
    /\ UNCHANGED <<heap, call, ret, prev, inner>>
    /\ UNCHANGED driverVars

\* Lines 38-40: the three loops are entered, or skipped when range(n) is empty.
NaiveLoopEnter ==
    /\ At("naive_method", 38)
    /\ IF Top.env["n"] > 0
       THEN Goto(41, Bind(Bind(Bind(Top.env, "i", 0), "j", 0), "k", 0))
       ELSE Goto(44, Top.env)
    /\ UNCHANGED <<heap, call, ret, prev, inner>>
    /\ UNCHANGED driverVars

\* Lines 41-42, one execution of the loop body, and the step of the loops to
\* the next (i, j, k) or out of them.
NaiveLoopBody ==
    /\ At("naive_method", 41)
    /\ LET env == Top.env
           n   == env["n"]
           i   == env["i"]
           j   == env["j"]
           k   == env["k"]
           s2  == LoopBody(Deref(heap, env["A"]), Deref(heap, env["B"]),
                           [C |-> Deref(heap, env["C"]), flops |-> env["flops"]],
                           i, j, k)
           e2  == Bind(env, "flops", s2.flops)
       IN  IF IsErr(s2)
           THEN /\ Unwind(s2.err)
                /\ UNCHANGED heap
           ELSE /\ heap' = Store(heap, env["C"], s2.C)
                /\ IF k + 1 < n THEN Goto(41, Bind(e2, "k", k + 1))
                   ELSE IF j + 1 < n THEN Goto(41, Bind(Bind(e2, "j", j + 1), "k", 0))
                   ELSE IF i + 1 < n
                        THEN Goto(41, Bind(Bind(Bind(e2, "i", i + 1), "j", 0), "k", 0))
                        ELSE Goto(44, e2)
                /\ UNCHANGED ret
    /\ inner' = inner + 1
    /\ UNCHANGED <<call, prev>>
    /\ UNCHANGED driverVars

\* Line 44: return C, flops.
NaiveReturn ==
    /\ At("naive_method", 44)
    /\ Return([C |-> Top.env["C"], flops |-> Top.env["flops"]])
    /\ UNCHANGED <<heap, call, prev, inner>>
    /\ UNCHANGED driverVars

(* strassen_method, lines 59-106 *)

\* Line 59: n = A.shape[0].
StrassenShape ==
    /\ At("strassen_method", 59)
    /\ Goto(61, Bind(Top.env, "n", Top.env["A"].nr))
    /\ UNCHANGED <<heap, call, ret, prev, inner>>
    /\ UNCHANGED driverVars

\* Line 61: if n <= 2.
StrassenBaseTest ==
    /\ At("strassen_method", 61)
    /\ Goto(IF IsBaseCase(Top.env["n"]) THEN 62 ELSE 64, Top.env)
    /\ UNCHANGED <<heap, call, ret, prev, inner>>
    /\ UNCHANGED driverVars

\* Line 62, the call of naive_method(A, B).
StrassenBaseCall ==
    /\ At("strassen_method", 62)
    /\ "retval" \notin DOMAIN Top.env
    /\ Call("naive_method", Top.env["A"], Top.env["B"])
    /\ inner' = 0
    /\ UNCHANGED <<heap, call, ret, prev>>
    /\ UNCHANGED driverVars

\* Line 62, the return of what naive_method returned.
StrassenBaseReturn ==
    /\ At("strassen_method", 62)
    /\ "retval" \in DOMAIN Top.env
    /\ Return(Top.env["retval"])
    /\ UNCHANGED <<heap, call, prev, inner>>
    /\ UNCHANGED driverVars

\* Line 64: mid = n // 2.
StrassenMid ==
    /\ At("strassen_method", 64)
    /\ Goto(65, Bind(Top.env, "mid", Mid(Top.env["n"])))
    /\ UNCHANGED <<heap, call, ret, prev, inner>>
    /\ UNCHANGED driverVars

\* Lines 65-72: a quadrant, a view of A or of B.
StrassenSlice ==
    /\ Running /\ Top.fn = "strassen_method" /\ ~Top.await /\ HasLine(QuadCode, Top.pc)
    /\ LET c == AtLine(QuadCode, Top.pc)
       IN  Goto(After(StrassenLines, Top.pc),
                Bind(Top.env, c.dst,
                     QuadrantRef(Top.env[c.src], c.rows, c.cols, Top.env["mid"])))
    /\ UNCHANGED <<heap, call, ret, prev, inner>>
    /\ UNCHANGED driverVars

\* Line 74: flops = 0.
StrassenInitFlops ==
    /\ At("strassen_method", 74)
    /\ Goto(75, Bind(Top.env, "flops", 0))
    /\ UNCHANGED <<heap, call, ret, prev, inner>>
    /\ UNCHANGED driverVars

\* Lines 75-84: a combination S_t, a new array.
StrassenCombine ==
    /\ Running /\ Top.fn = "strassen_method" /\ ~Top.await /\ HasLine(ComboCode, Top.pc)
    /\ LET c == AtLine(ComboCode, Top.pc)
           r == Elementwise(c.op, Deref(heap, Top.env[c.x]), Deref(heap, Top.env[c.y]))
       IN  IF IsErr(r)
           THEN /\ Unwind(r.err)
                /\ UNCHANGED heap
           ELSE /\ heap' = Append(heap, r)
                /\ Goto(After(StrassenLines, Top.pc),
                        Bind(Top.env, c.dst, WholeRef(Len(heap) + 1, r)))
                /\ UNCHANGED ret
    /\ UNCHANGED <<call, prev, inner>>
    /\ UNCHANGED driverVars

\* Lines 86-92: the call of strassen_method on a pair of operands.
StrassenMultiply ==
    /\ Running /\ Top.fn = "strassen_method" /\ ~Top.await
    /\ HasLine(ProductCode, Top.pc)
    /\ LET c == AtLine(ProductCode, Top.pc)
       IN  Call("strassen_method", Top.env[c.a], Top.env[c.b])
    /\ UNCHANGED <<heap, call, ret, prev, inner>>
    /\ UNCHANGED driverVars

\* Line 94: flops = flops1 + ... + flops7 + 10 * (n // 2) ** 2.
StrassenLevelFlops ==
    /\ At("strassen_method", 94)
    /\ Goto(96, Bind(Top.env, "flops", LevelFlops(Top.env, Top.env["n"])))
    /\ UNCHANGED <<heap, call, ret, prev, inner>>
    /\ UNCHANGED driverVars

\* Lines 96-99: a quadrant of the result, a new array.
StrassenRecombine ==
    /\ Running /\ Top.fn = "strassen_method" /\ ~Top.await /\ HasLine(RecombineCode, Top.pc)
    /\ LET c == AtLine(RecombineCode, Top.pc)
           values == [name \in {c.rest[t].y : t \in 1 .. Len(c.rest)} |->
                         Deref(heap, Top.env[name])]
           r == Chain(values, Deref(heap, Top.env[c.first]), c.rest, 1)
       IN  IF IsErr(r)
           THEN /\ Unwind(r.err)
                /\ UNCHANGED heap
           ELSE /\ heap' = Append(heap, r)
                /\ Goto(After(StrassenLines, Top.pc),
                        Bind(Top.env, c.dst, WholeRef(Len(heap) + 1, r)))
                /\ UNCHANGED ret
    /\ UNCHANGED <<call, prev, inner>>
    /\ UNCHANGED driverVars

\* Line 101: C = np.zeros((n, n)), a new array.
StrassenAlloc ==
    /\ At("strassen_method", 101)
    /\ heap' = Append(heap, Zeros(Top.env["n"]))
    /\ Goto(102, Bind(Top.env, "C", WholeRef(Len(heap) + 1, Zeros(Top.env["n"]))))
    /\ UNCHANGED <<call, ret, prev, inner>>
    /\ UNCHANGED driverVars

\* Lines 102-105: C[rows, cols] = C_rc, written into C's array.
StrassenAssemble ==
    /\ Running /\ Top.fn = "strassen_method" /\ ~Top.await /\ HasLine(AssembleCode, Top.pc)
    /\ LET c == AtLine(AssembleCode, Top.pc)
           r == AssignQuadrant(Deref(heap, Top.env["C"]), c.rows, c.cols,
                               Top.env["mid"], Deref(heap, Top.env[c.src]))
       IN  IF IsErr(r)
           THEN /\ Unwind(r.err)
                /\ UNCHANGED heap
           ELSE /\ heap' = Store(heap, Top.env["C"], r)
                /\ Goto(After(StrassenLines, Top.pc), Top.env)
                /\ UNCHANGED ret
    /\ UNCHANGED <<call, prev, inner>>
    /\ UNCHANGED driverVars

\* Line 106: return C, flops.
StrassenReturn ==
    /\ At("strassen_method", 106)
    /\ Return([C |-> Top.env["C"], flops |-> Top.env["flops"]])
    /\ UNCHANGED <<heap, call, prev, inner>>
    /\ UNCHANGED driverVars

(* The driver's calls, lines 116 and 123, statement by statement *)

\* The operand pairs the statement-level runs are given.
StepPairs ==
    {<<RowMajor(n), Signed(n)>> : n \in Dims}
      \cup {<<Signed(n), IdentityMatrix(n)>> : n \in {d \in Dims : d <= MaxBasisN}}
      \cup {<<RowMajor(p[1]), Signed(p[2])>> :
              p \in {q \in Dims \X Dims : q[1] <= MaxBasisN /\ q[1] # q[2]
                                           /\ q[1] - q[2] \in -1 .. 1}}

\* The previous top-level call and what it returned, once it has returned.
Completed ==
    IF call # None /\ ret # None /\ ~IsErr(ret)
    THEN [fn |-> call.fn, A |-> call.A, B |-> call.B,
          C |-> Deref(heap, ret.C), flops |-> ret.flops]
    ELSE prev

\* The driver calls fn(A, B) on two arrays of its own.  With remember, the
\* call that has just returned is kept in prev to compare the next with.
TopCall(fn, A, B, remember) ==
    /\ ~Running
    /\ heap' = <<A, B>>
    /\ stack' = <<Frame(<<A, B>>, fn, WholeRef(1, A), WholeRef(2, B))>>
    /\ call' = [fn |-> fn, A |-> A, B |-> B]
    /\ prev' = IF remember THEN Completed ELSE prev
    /\ ret' = None
    /\ inner' = 0

\* Line 116: naive_method(A, B).
TopCallNaive ==
    /\ \E p \in StepPairs : TopCall("naive_method", p[1], p[2], FALSE)
    /\ UNCHANGED driverVars

\* Line 123: strassen_method(A, B).
TopCallStrassen ==
    /\ \E p \in StepPairs : TopCall("strassen_method", p[1], p[2], FALSE)
    /\ UNCHANGED driverVars

\* Lines 116 and 123 in a sequence of calls, each after the one before it.
NextCallNaive ==
    /\ \E p \in StepPairs : TopCall("naive_method", p[1], p[2], TRUE)
    /\ UNCHANGED driverVars

NextCallStrassen ==
    /\ \E p \in StepPairs : TopCall("strassen_method", p[1], p[2], TRUE)
    /\ UNCHANGED driverVars

\* One statement of the call in progress.
NaiveStep ==
    \/ NaiveShape \/ NaiveAlloc \/ NaiveInitFlops \/ NaiveLoopEnter
    \/ NaiveLoopBody \/ NaiveReturn

StrassenStep ==
    \/ StrassenShape \/ StrassenBaseTest \/ StrassenBaseCall
    \/ StrassenBaseReturn \/ StrassenMid \/ StrassenSlice
    \/ StrassenInitFlops \/ StrassenCombine \/ StrassenMultiply
    \/ StrassenLevelFlops \/ StrassenRecombine \/ StrassenAlloc
    \/ StrassenAssemble \/ StrassenReturn

RunStep == NaiveStep \/ StrassenStep

StepIdle ==
    /\ heap = <<>>
    /\ stack = <<>>
    /\ call = None
    /\ ret = None
    /\ prev = None
    /\ inner = 0

DriverIdle ==
    /\ inA = Zeros(0)
    /\ inB = Zeros(0)
    /\ naive_out = None
    /\ strassen_out = None

StepInit == StepIdle /\ DriverIdle

\* One call at a time, statement by statement.
StepNext == TopCallNaive \/ TopCallStrassen \/ RunStep

StepSpec == StepInit /\ [][StepNext]_vars

\* A sequence of calls, each compared with the one before it.
SeqNext == NextCallNaive \/ NextCallStrassen \/ RunStep

SeqSpec == StepInit /\ [][SeqNext]_vars

\* The interpreter executes the call in progress statement by statement until
\* it returns or raises.
FairStepSpec == StepSpec /\ WF_vars(RunStep)

-----------------------------------------------------------------------------
(* The driver (lines 108-126): generate A and B, call each method on them. *)

Init ==
    /\ \E p \in InputPairs : inA = p[1] /\ inB = p[2]
    /\ naive_out = None
    /\ strassen_out = None
    /\ StepIdle

\* Line 111: A, B = generate_matrices(n).
Generate ==
    /\ \E p \in InputPairs : inA' = p[1] /\ inB' = p[2]
    /\ naive_out' = None
    /\ strassen_out' = None
    /\ UNCHANGED stepVars

\* Line 116: C_naive, naive_flops = naive_method(A, B).
CallNaive ==
    /\ naive_out = None
    /\ naive_out' = naive_method(inA, inB)
    /\ UNCHANGED <<inA, inB, strassen_out>>
    /\ UNCHANGED stepVars

\* Line 123: C_strassen, strassen_flops = strassen_method(A, B).
CallStrassen ==
    /\ strassen_out = None
    /\ strassen_out' = strassen_method(inA, inB)
    /\ UNCHANGED <<inA, inB, naive_out>>
    /\ UNCHANGED stepVars

Next == Generate \/ CallNaive \/ CallStrassen

Spec == Init /\ [][Next]_vars
-----------------------------------------------------------------------------
(* Properties *)

Returned(out) == out # None /\ ~IsErr(out)

IsPowerOfTwo(n) == \E k \in 0 .. n : 2 ^ k = n

RECURSIVE Log2(_)
Log2(n) == IF n <= 1 THEN 0 ELSE 1 + Log2(n \div 2)

\* Both operands n x n.
BothOfDim(A, B, n) == A.nr = n /\ A.nc = n /\ B.nr = n /\ B.nc = n

\* sum over k < m of A[i][k] * B[k][j].
RECURSIVE DotTo(_, _, _, _, _)
DotTo(A, B, i, j, m) ==
    IF m = 0 THEN 0
    ELSE DotTo(A, B, i, j, m - 1) + A.e[<<i, m - 1>>] * B.e[<<m - 1, j>>]

\* The product of two n x n matrices.
Product(A, B) ==
    [nr |-> A.nr, nc |-> A.nr,
     e  |-> [p \in Idx(A.nr, A.nr) |-> DotTo(A, B, p[1], p[2], A.nr)]]

\* f(n) = 7 f(n/2) + 10 (n/2)^2 for n > 2, f(n) = 2 n^3 for n <= 2.
RECURSIVE StrassenCount(_)
StrassenCount(n) ==
    IF n <= 2 THEN 2 * n * n * n
    ELSE 7 * StrassenCount(n \div 2) + 10 * (n \div 2) * (n \div 2)

\* The statement-level machine and the two operators give one call the same
\* result.
StepAgreesWithOperators ==
    (call # None /\ ret # None) =>
        LET r == IF call.fn = "naive_method" THEN naive_method(call.A, call.B)
                                             ELSE strassen_method(call.A, call.B)
        IN  IF IsErr(ret) THEN r = ret
            ELSE r = [C |-> Deref(heap, ret.C), flops |-> ret.flops]

\* C1: on two operands of one power-of-two dimension strassen_method returns
\* the product, C[i][j] = sum over k of A[i][k] * B[k][j], entry for entry the
\* matrix naive_method returns.
C1_StrassenReturnsTheProduct ==
    (strassen_out # None /\ IsPowerOfTwo(inA.nr) /\ BothOfDim(inA, inB, inA.nr)) =>
        /\ Returned(strassen_out)
        /\ strassen_out.C = Product(inA, inB)
        /\ naive_out # None => (Returned(naive_out) /\ naive_out.C = strassen_out.C)

C1_Witness ==
    /\ inA = RowMajor(4) /\ inB = RowMajor(4)
    /\ Returned(strassen_out) /\ Returned(naive_out)
    /\ strassen_out.C = naive_out.C
    /\ strassen_out.C.e[<<0, 0>>] = 90 /\ strassen_out.C.e[<<3, 3>>] = 600

\* C2: on two n x n operands, n >= 0, naive_method reports 2 * n^3
\* operations, whatever the entries.
C2_NaiveCount ==
    (naive_out # None /\ BothOfDim(inA, inB, inA.nr)) =>
        /\ Returned(naive_out)
        /\ naive_out.flops = 2 * inA.nr * inA.nr * inA.nr

C2_Witness ==
    /\ inA = RowMajor(4) /\ inB = RowMajor(4)
    /\ Returned(naive_out) /\ naive_out.flops = 128

\* C3: the count strassen_method reports on two n x n operands is f(n), with
\* f(n) = 7 f(n/2) + 10 (n/2)^2 for a power of two n > 2 and f(n) = 2 n^3
\* for n <= 2.
C3_StrassenCountRecurrence ==
    (/\ strassen_out # None
     /\ IsPowerOfTwo(inA.nr) \/ inA.nr <= 2
     /\ BothOfDim(inA, inB, inA.nr)) =>
        /\ Returned(strassen_out)
        /\ strassen_out.flops = StrassenCount(inA.nr)

C3_Witness ==
    /\ BothOfDim(inA, inB, 8)
    /\ Returned(strassen_out)
    /\ strassen_out.flops = 7 * (7 * 16 + 10 * 4) + 10 * 16

\* C4: a call of either method on operands of unequal dimension fails and
\* returns no (C, count) pair.
C4_UnequalDimensionsRejected ==
    inA.nr # inB.nr =>
        /\ naive_out # None => IsErr(naive_out)
        /\ strassen_out # None => IsErr(strassen_out)

\* C6: on two n x n operands with n <= 2 strassen_method returns the matrix
\* and the count naive_method returns.
C6_BaseCaseIdentical ==
    (/\ strassen_out # None /\ naive_out # None
     /\ inA.nr <= 2 /\ BothOfDim(inA, inB, inA.nr)) =>
        /\ Returned(naive_out)
        /\ strassen_out = naive_out

C6_Witness ==
    /\ inA = RowMajor(2) /\ inB = Signed(2)
    /\ Returned(strassen_out) /\ strassen_out = naive_out
    /\ strassen_out.flops = 16

\* C8: for a power-of-two n and an n x n matrix M, under both methods, the
\* product of M and the zero matrix, on either side, is the zero matrix, and
\* the product of M and the identity matrix, on either side, is M.
C8_ZeroAndIdentity ==
    LET n == inA.nr
    IN  (IsPowerOfTwo(n) /\ BothOfDim(inA, inB, n)) =>
            \A out \in {naive_out, strassen_out} \ {None} :
                /\ Returned(out)
                /\ (inA = ZeroMatrix(n) \/ inB = ZeroMatrix(n)) => out.C = ZeroMatrix(n)
                /\ inA = IdentityMatrix(n) => out.C = inB
                /\ inB = IdentityMatrix(n) => out.C = inA

C8_Witness ==
    /\ inA = Signed(4) /\ inB = IdentityMatrix(4)
    /\ Returned(naive_out) /\ Returned(strassen_out)
    /\ naive_out.C = inA /\ strassen_out.C = inA

Frames == {stack[d] : d \in 1 .. Len(stack)}

\* A frame of strassen_method whose two operands are n x n with n odd, n > 2.
OnOddOperands(f) ==
    /\ f.fn = "strassen_method"
    /\ f.given.A.nr > 2 /\ f.given.A.nr % 2 = 1
    /\ BothOfDim(f.given.A, f.given.B, f.given.A.nr)

\* C5: when strassen_method reaches operands of an odd dimension above the
\* base case it fails there: no quadrant of such a matrix is ever mis-sized,
\* each one sliced is (n/2) x (n/2) with 2 * (n/2) = n.
C5_OddDimensionNeverMisSized ==
    \A f \in Frames :
        OnOddOperands(f) =>
            \A t \in 1 .. Len(QuadCode) :
                QuadCode[t].dst \in DOMAIN f.env =>
                    LET q == f.env[QuadCode[t].dst]
                    IN  q.nr = q.nc /\ 2 * q.nr = f.given.A.nr

\* What holds of the code instead: a call that has reached such operands does
\* not return; it ends by an exception that unwinds to the driver.
C5_OddDimensionNeverReturns ==
    [][(\E f \in Frames : OnOddOperands(f)) =>
          \/ \E f \in {stack'[d] : d \in 1 .. Len(stack')} : OnOddOperands(f)
          \/ IsErr(ret')]_vars

\* C7: a call leaves its two operands as they were given, at every statement
\* and at every level of the recursion, and the array it returns is one made
\* during the call, not the storage of either operand or of a quadrant.
C7_OperandsUntouched ==
    /\ call # None => (heap[1] = call.A /\ heap[2] = call.B)
    /\ \A f \in Frames :
          /\ Deref(heap, f.env["A"]) = f.given.A
          /\ Deref(heap, f.env["B"]) = f.given.B
          /\ \A v \in {"C", "retval"} \cap DOMAIN f.env :
                LET c == IF v = "C" THEN f.env[v] ELSE f.env[v].C
                IN  /\ c.base \notin {f.env["A"].base, f.env["B"].base}
                    /\ c.base > f.given.arrays
    /\ Returned(ret) => ret.C.base \notin {1, 2}

C7_Witness ==
    /\ call # None /\ call.fn = "strassen_method"
    /\ call.A = RowMajor(4) /\ call.B = Signed(4)
    /\ Returned(ret) /\ ret.C.base > 2
    /\ Deref(heap, ret.C) = Product(call.A, call.B)
    /\ heap[1] = RowMajor(4) /\ heap[2] = Signed(4)

\* The call in progress, or just ended, is strassen_method on two operands of
\* one power-of-two dimension.
PowerOfTwoCall ==
    /\ call # None /\ call.fn = "strassen_method"
    /\ IsPowerOfTwo(call.A.nr) /\ BothOfDim(call.A, call.B, call.A.nr)

\* The recursive calls in progress: the frames of strassen_method above the
\* top-level one.
RecursiveCalls == {d \in 2 .. Len(stack) : stack[d].fn = "strassen_method"}

C9_Bounded ==
    PowerOfTwoCall =>
        /\ \A d \in RecursiveCalls :
              /\ 2 * stack[d].given.A.nr = stack[d - 1].given.A.nr
              /\ BothOfDim(stack[d].given.A, stack[d].given.B, stack[d].given.A.nr)
        /\ Cardinality(RecursiveCalls) <= Log2(call.A.nr)
        /\ \A f \in Frames :
              f.fn = "naive_method" =>
                  /\ f.given.A.nr <= 2
                  /\ f.pc = 44 => inner = f.given.A.nr * f.given.A.nr * f.given.A.nr

\* C9: strassen_method on operands of a power-of-two dimension n terminates:
\* each recursive call is on operands of dimension n/2, the recursive calls
\* nest no deeper than log2(n), naive_method is reached only with n <= 2 and
\* returns after n^3 executions of its loop body, and the call returns.
C9_StrassenTerminates ==
    /\ []C9_Bounded
    /\ (PowerOfTwoCall /\ Running) ~> (PowerOfTwoCall /\ ~Running /\ Returned(ret))

C9_Witness ==
    /\ PowerOfTwoCall /\ call.A.nr = 8
    /\ Cardinality(RecursiveCalls) = 2
    /\ At("naive_method", 44) /\ inner = 8

FlopsOf(f) == IF "flops" \in DOMAIN f.env THEN f.env["flops"] ELSE 0

\* How each call in progress has come by its count.
C10_CountAccounting ==
    \A f \in Frames :
        "flops" \in DOMAIN f.env =>
            IF f.fn = "naive_method" THEN f.env["flops"] = 2 * inner
            ELSE IF f.pc <= 94 THEN f.env["flops"] = 0
            ELSE f.env["flops"] =
                    f.env["flops1"] + f.env["flops2"] + f.env["flops3"]
                      + f.env["flops4"] + f.env["flops5"] + f.env["flops6"]
                      + f.env["flops7"] + 10 * f.env["mid"] * f.env["mid"]

\* A call's result against the previous call's: the same count for the same
\* method and dimensions, the same matrix too for the same operands.
C10_CountDependsOnDimension ==
    (Returned(ret) /\ prev # None /\ prev.fn = call.fn) =>
        /\ (prev.A.nr = call.A.nr /\ prev.B.nr = call.B.nr) => ret.flops = prev.flops
        /\ (prev.A = call.A /\ prev.B = call.B) => Deref(heap, ret.C) = prev.C

C10_CountNeverDecreases ==
    \A d \in 1 .. Len(stack) :
        d <= Len(stack') => FlopsOf(stack'[d]) >= FlopsOf(stack[d])

\* C10: the count belongs to one call: it starts at 0 and never decreases
\* while the call runs, and what a call returns depends on its method and
\* dimension alone, not on the entries and not on the call before it.
C10_CountIsPerCall ==
    /\ [](C10_CountAccounting /\ C10_CountDependsOnDimension)
    /\ [][C10_CountNeverDecreases]_vars

C10_Witness ==
    /\ Returned(ret) /\ prev # None
    /\ call.fn = "strassen_method" /\ prev.fn = "strassen_method"
    /\ call.A.nr = 4 /\ prev.A.nr = 4 /\ call.B.nr = 4 /\ prev.B.nr = 4
    /\ call.A # prev.A
    /\ ret.flops = 152 /\ prev.flops = 152

====
